---- MODULE Spec2Model ----
(***************************************************************************)
(* vue-firestore: binding of Firestore queries and documents to keys of a  *)
(* Vue instance (src/src/vue-firestore.js).                                *)
(*                                                                         *)
(* One owner (vm).  Every bind call creates a closure (key, source,        *)
(* container, resolve, reject) and registers it with source.onSnapshot;    *)
(* the closures are numbered 1..Len(subs) in creation order.  The Firestore *)
(* client is the environment: per listener it holds the snapshot it last   *)
(* delivered and reports every transition as a batch of change events.     *)
(***************************************************************************)
EXTENDS Integers, Sequences, FiniteSets, TLC

\* ------------------------------------------------------------ bounds
MaxBinds == 1     \* bind calls made on the owner (lifecycle specification)
MaxRebinds == 2   \* bind calls made on the owner (rebinding specification)
LifeBatch == 1    \* change events in one batch (lifecycle specification)
MaxNotifs == 2    \* notifications (snapshots and errors) the client delivers
MaxBatch == 2     \* change events in one batch (synchronisation specification)
SyncNotifs == 2   \* batches the client delivers (synchronisation specification)
MaxLen == 3       \* container length drawn in the single-event specifications

\* ------------------------------------------------------------ domains
Keys == {"k1", "k2"}
DocIds == {"a", "b", "c", "d"}
Values == {"v1", "v2"}
Errors == {"denied", "offline"}

\* A document of the store: identity plus field data (one field, v).
Doc(id, v) == [id |-> id, data |-> [v |-> v]]
Docs == {Doc(i, v) : i \in DocIds, v \in Values}

\* The documents the store may hold in the lifecycle specification, and in
\* the synchronisation specification (where only positions and identities
\* matter: its documents carry one value).
LifeIds == {"a"}
SyncIds == {"a", "b"}
LifeDocs == {Doc(i, v) : i \in LifeIds, v \in Values}
SyncDocs == {Doc(i, "v1") : i \in SyncIds}

\* The identity of the document a document reference points at, and the
\* snapshots of it the client may deliver: with field v, or with no field.
RefDocId == "a"
RefDocs == {Doc(RefDocId, v) : v \in Values} \cup {[id |-> RefDocId, data |-> [p \in {} |-> p]]}

\* The sentinel Firestore gives an index that does not apply.
NoIndex == 0 - 1

\* ------------------------------------------------------------ JS objects
\* A plain object is a function from its own property names to values.
EmptyObject == [p \in {} |-> p]
SetKey(m, k, v) == [p \in (DOMAIN m) \cup {k} |-> IF p = k THEN v ELSE m[p]]
DeleteKey(m, k) == [p \in (DOMAIN m) \ {k} |-> m[p]]

\* A heap object created by a bind call: an array has items, and (as every
\* JS object) named properties; the object of keyed mode has properties only.
EmptyContainer == [items |-> <<>>, props |-> EmptyObject]

\* What vm[key] holds: nothing, a reference to the container of closure b,
\* or an object of its own (a normalized document).
Absent == [tag |-> "absent"]
Ref(b) == [tag |-> "ref", b |-> b]
Obj(o) == [tag |-> "obj", obj |-> o]

Max(a, b) == IF a >= b THEN a ELSE b
Min(a, b) == IF a <= b THEN a ELSE b

\* Array.prototype.splice(start, deleteCount, ...ins), 0-based start,
\* with the clamping of ECMAScript (a negative start counts from the end).
splice(arr, start, deleteCount, ins) ==
  LET len == Len(arr)
      s == IF start < 0 THEN Max(len + start, 0) ELSE Min(start, len)
      dc == Min(Max(deleteCount, 0), len - s)
  IN SubSeq(arr, 1, s) \o ins \o SubSeq(arr, s + dc + 1, len)

\* defaultOptions.keyName
keyName == "id"

\* normalize(snapshot, defaultOptions): the document's field data with the
\* identity added under keyName.
normalize(doc) ==
  [f \in (DOMAIN doc.data) \cup {keyName} |->
     IF f = keyName THEN doc.id ELSE doc.data[f]]

\* ------------------------------------------------------------ promise
Pending == [state |-> "pending"]
\* resolve / reject of the executor of `new Promise`: the first call settles.
MutResolveOverwrites(p, v) == [state |-> "fulfilled", value |-> v]
resolve(p, v) == IF p.state = "pending" THEN [state |-> "fulfilled", value |-> v] ELSE p
reject(p, e) == IF p.state = "pending" THEN [state |-> "rejected", reason |-> e] ELSE p

\* ------------------------------------------------------------ state
VARIABLES
  phase,      \* "init" before the created hook, "alive", "destroyed"
  firestore,  \* vm.$firestore: [st: "undefined" | "null" | "table", tab: key -> source]
  vm,         \* vm[key] for the bound property names
  heap,       \* heap[b]: the container created by bind call b
  subs,       \* subs[b]: the closure of bind call b, [key, mode, source, listening, callbacks]
  promise,    \* promise[b]: the promise created by bind call b
  server,     \* server[b]: the snapshot the client last delivered to listener b
  invoked,    \* invoked[b]: the calls made to the caller's callbacks of bind call b
  delivered,  \* history: the number of notifications delivered so far
  unbound,    \* history: the closures whose key was unbound after they were created
  lastCall    \* history: the last operation and its arguments

vars == <<phase, firestore, vm, heap, subs, promise, server, invoked, delivered, unbound,
          lastCall>>

Call(op, key, b, arg, threw) == [op |-> op, key |-> key, b |-> b, arg |-> arg, threw |-> threw]

Init ==
  /\ phase = "init"
  /\ firestore = [st |-> "undefined", tab |-> EmptyObject]
  /\ vm = [k \in Keys |-> Absent]
  /\ heap = <<>>
  /\ subs = <<>>
  /\ promise = <<>>
  /\ server = <<>>
  /\ invoked = <<>>
  /\ delivered = 0
  /\ unbound = {}
  /\ lastCall = Call("new", "", 0, "", FALSE)

\* The program state a bind call works on.
State == [firestore |-> firestore, vm |-> vm, heap |-> heap, subs |-> subs,
          promise |-> promise, server |-> server, invoked |-> invoked]

Install(s) ==
  /\ firestore' = s.firestore
  /\ vm' = s.vm
  /\ heap' = s.heap
  /\ subs' = s.subs
  /\ promise' = s.promise
  /\ server' = s.server
  /\ invoked' = s.invoked

\* ------------------------------------------------------------ bind
\* A source as a caller passes it: a reference (hasRef = FALSE), or a
\* descriptor {ref, objects, resolve, reject} (hasRef = TRUE); where: whether
\* the reference has `where` (a query or collection) or not (a document
\* reference); callbacks: "none" when the descriptor has no resolve and no
\* reject, "returns" when it has both and they return, "throws" when it has
\* both and its resolve throws.
Sources ==
  {[hasRef |-> FALSE, objects |-> FALSE, where |-> w, callbacks |-> "none"] : w \in BOOLEAN}
  \cup {[hasRef |-> TRUE, objects |-> o, where |-> w, callbacks |-> "none"] : o, w \in BOOLEAN}

\* The descriptors that carry the caller's resolve and reject.
ChainSources ==
  {[hasRef |-> TRUE, objects |-> o, where |-> w, callbacks |-> c] :
     o, w \in BOOLEAN, c \in {"returns", "throws"}}

Unwrapped(source) == IF source.where THEN "query" ELSE "document"

defineReactive(v, key, val) == [v EXCEPT ![key] = val]

\* collections / collectionOfObjects / documents, up to the onSnapshot call:
\* all three record the source, create a container ([] or {}), declare the
\* key with it, and register one listener.
Open(s, key, src, mode) ==
  LET b == Len(s.subs) + 1 IN
  [ firestore |-> [s.firestore EXCEPT !.tab = SetKey(@, key, src)],
    vm |-> defineReactive(s.vm, key, Ref(b)),
    heap |-> Append(s.heap, EmptyContainer),
    subs |-> Append(s.subs, [key |-> key, mode |-> mode, source |-> src, listening |-> TRUE,
                             callbacks |-> "none"]),
    promise |-> Append(s.promise, Pending),
    server |-> Append(s.server, <<>>),
    invoked |-> Append(s.invoked, <<>>) ]

collections(s, key, src) == Open(s, key, src, "collections")
collectionOfObjects(s, key, src) == Open(s, key, src, "collectionOfObjects")
documents(s, key, src) == Open(s, key, src, "documents")

\* The `objects` flag bind decides with.
bindObjects(paramsObjects, source) ==
  IF source.hasRef THEN source.objects ELSE paramsObjects

bindMode(paramsObjects, source) ==
  IF bindObjects(paramsObjects, source) THEN "collectionOfObjects"
  ELSE IF source.where THEN "collections"
  ELSE "documents"

\* bind: the mode function runs inside the executor of the promise; the
\* callbacks of a descriptor are kept to be chained on that promise.
bind(s, key, source, paramsObjects) ==
  LET src == Unwrapped(source)
      mode == bindMode(paramsObjects, source)
      opened == CASE mode = "collectionOfObjects" -> collectionOfObjects(s, key, src)
                  [] mode = "collections" -> collections(s, key, src)
                  [] OTHER -> documents(s, key, src)
  IN [opened EXCEPT !.subs[Len(opened.subs)].callbacks = source.callbacks]

\* ensureRefs(vm) of utils: gives the owner a side-table when it has none.
ensureRefs(f) == IF f.st = "table" THEN f ELSE [st |-> "table", tab |-> EmptyObject]

\* `if (!this.$firestore) this.$firestore = Object.create(null)` of $binding
\* and $bindCollectionAsObject.
ensureFirestore(f) == IF f.st = "table" THEN f ELSE [st |-> "table", tab |-> EmptyObject]

\* The created hook: decl is the owner's firestore option, absent ("none") or
\* a sequence of <<key, source>> declarations bound in order.
RECURSIVE bindAll(_, _)
bindAll(s, decl) ==
  IF decl = <<>> THEN s
  ELSE bindAll(bind(s, decl[1][1], decl[1][2], FALSE), Tail(decl))

Declarations ==
  {<<>>}
  \cup {<<<<k, src>>>> : k \in Keys, src \in Sources}
  \cup {<<<<"k1", s1>>, <<"k2", s2>>>> : s1, s2 \in Sources}

Created(cap) ==
  /\ phase = "init"
  /\ phase' = "alive"
  /\ \/ /\ UNCHANGED <<firestore, vm, heap, subs, promise, server, invoked>>
        /\ lastCall' = Call("created", "", 0, <<>>, FALSE)
     \/ \E decl \in Declarations :
          /\ Len(decl) <= cap
          /\ Install(bindAll([State EXCEPT !.firestore = ensureRefs(@)], decl))
          /\ lastCall' = Call("created", "", Len(decl), decl, FALSE)
  /\ UNCHANGED <<delivered, unbound>>

\* Vue.prototype.$binding / $bindCollectionAsObject
Binding(key, source, cap) ==
  /\ phase # "init"
  /\ Len(subs) < cap
  /\ Install(bind([State EXCEPT !.firestore = ensureFirestore(@)], key, source, FALSE))
  /\ lastCall' = Call("$binding", key, Len(subs) + 1, source, FALSE)
  /\ UNCHANGED <<phase, delivered, unbound>>

BindCollectionAsObject(key, source, cap) ==
  /\ phase # "init"
  /\ Len(subs) < cap
  /\ Install(bind([State EXCEPT !.firestore = ensureFirestore(@)], key, source, TRUE))
  /\ lastCall' = Call("$bindCollectionAsObject", key, Len(subs) + 1, source, FALSE)
  /\ UNCHANGED <<phase, delivered, unbound>>

\* ------------------------------------------------------------ the remote client
\* The reference meaning of the indices of a change event (0-based): the
\* collection with x put at position i, and with position i taken out.
InsertAt(s, i, x) ==
  [j \in 1..(Len(s) + 1) |-> IF j <= i THEN s[j] ELSE IF j = i + 1 THEN x ELSE s[j - 1]]
RemoveAt(s, i) ==
  [j \in 1..(Len(s) - 1) |-> IF j <= i THEN s[j] ELSE s[j + 1]]

IdsOf(srv) == {srv[j].id : j \in 1..Len(srv)}

\* The change events the client may report next for a query whose last
\* reported result is srv: indices are positions in srv (oldIndex) and in
\* the result after the change (newIndex).
ValidChanges(srv, docs) ==
  {[type |-> "added", oldIndex |-> NoIndex, newIndex |-> i, doc |-> d] :
     i \in 0..Len(srv),
     d \in {x \in docs : x.id \notin IdsOf(srv)}}
  \cup {[type |-> "removed", oldIndex |-> i, newIndex |-> NoIndex, doc |-> srv[i + 1]] :
     i \in 0..(Len(srv) - 1)}
  \cup UNION {{[type |-> "modified", oldIndex |-> i, newIndex |-> j, doc |-> d] :
                  j \in 0..(Len(srv) - 1),
                  d \in {x \in docs : x.id = srv[i + 1].id}} : i \in 0..(Len(srv) - 1)}

\* The query result after one reported change.
ServerApply(srv, ev) ==
  CASE ev.type = "added" -> InsertAt(srv, ev.newIndex, ev.doc)
    [] ev.type = "removed" -> RemoveAt(srv, ev.oldIndex)
    [] ev.type = "modified" -> InsertAt(RemoveAt(srv, ev.oldIndex), ev.newIndex, ev.doc)
    [] OTHER -> srv

RECURSIVE ServerReplay(_, _)
ServerReplay(srv, batch) ==
  IF batch = <<>> THEN srv
  ELSE ServerReplay(ServerApply(srv, Head(batch)), Tail(batch))

\* The batches (docChanges() of one QuerySnapshot) of at most n events, each
\* event valid in the result the events before it leave.
RECURSIVE Batches(_, _, _)
Batches(srv, n, docs) ==
  {<<>>} \cup
  (IF n = 0 THEN {}
   ELSE UNION {{<<ev>> \o rest : rest \in Batches(ServerApply(srv, ev), n - 1, docs)} :
                 ev \in ValidChanges(srv, docs)})

\* The values snapshot.type may have in the switch of the callback: a valid
\* change, or an event of a kind that is none of added, removed, modified.
AnyChanges(srv, docs) ==
  ValidChanges(srv, docs)
  \cup {[type |-> "other", oldIndex |-> 0, newIndex |-> 0, doc |-> d] : d \in docs}

RECURSIVE AnyBatches(_, _, _)
AnyBatches(srv, n, docs) ==
  {<<>>} \cup
  (IF n = 0 THEN {}
   ELSE UNION {{<<ev>> \o rest : rest \in AnyBatches(ServerApply(srv, ev), n - 1, docs)} :
                 ev \in AnyChanges(srv, docs)})

\* ------------------------------------------------------------ listeners
\* Mutants of the callback: `added` pushes at the end; `modified` always
\* replaces in place at newIndex.
MutChangeAddedPushes(container, snapshot) ==
  CASE snapshot.type = "added" -> Append(container, normalize(snapshot.doc))
    [] snapshot.type = "removed" -> splice(container, snapshot.oldIndex, 1, <<>>)
    [] snapshot.type = "modified" ->
         IF snapshot.oldIndex # snapshot.newIndex
         THEN splice(splice(container, snapshot.oldIndex, 1, <<>>),
                     snapshot.newIndex, 0, <<normalize(snapshot.doc)>>)
         ELSE splice(container, snapshot.newIndex, 1, <<normalize(snapshot.doc)>>)
    [] OTHER -> container
MutChangeModifiedInPlace(container, snapshot) ==
  CASE snapshot.type = "added" ->
         splice(container, snapshot.newIndex, 0, <<normalize(snapshot.doc)>>)
    [] snapshot.type = "removed" -> splice(container, snapshot.oldIndex, 1, <<>>)
    [] snapshot.type = "modified" ->
         splice(container, snapshot.newIndex, 1, <<normalize(snapshot.doc)>>)
    [] OTHER -> container

\* Mutant: an event of any other kind is inserted like an added one.
MutChangeOtherAdds(container, snapshot) ==
  CASE snapshot.type = "removed" ->
         splice(container, snapshot.oldIndex, 1, <<>>)
    [] snapshot.type = "modified" ->
         IF snapshot.oldIndex # snapshot.newIndex
         THEN splice(splice(container, snapshot.oldIndex, 1, <<>>),
                     snapshot.newIndex, 0, <<normalize(snapshot.doc)>>)
         ELSE splice(container, snapshot.newIndex, 1, <<normalize(snapshot.doc)>>)
    [] OTHER -> splice(container, snapshot.newIndex, 0, <<normalize(snapshot.doc)>>)

\* The forEach callback of collections (the switch on snapshot.type).
collectionsChange(container, snapshot) ==
  CASE snapshot.type = "added" ->
         splice(container, snapshot.newIndex, 0, <<normalize(snapshot.doc)>>)
    [] snapshot.type = "removed" ->
         splice(container, snapshot.oldIndex, 1, <<>>)
    [] snapshot.type = "modified" ->
         IF snapshot.oldIndex # snapshot.newIndex
         THEN splice(splice(container, snapshot.oldIndex, 1, <<>>),
                     snapshot.newIndex, 0, <<normalize(snapshot.doc)>>)
         ELSE splice(container, snapshot.newIndex, 1, <<normalize(snapshot.doc)>>)
    [] OTHER -> container

\* Mutant: the events of a batch applied last to first.
RECURSIVE MutForEachLastFirst(_, _)
MutForEachLastFirst(container, changes) ==
  IF changes = <<>> THEN container
  ELSE collectionsChange(MutForEachLastFirst(container, Tail(changes)), Head(changes))

\* doc.docChanges().forEach(...) of collections.
RECURSIVE collectionsForEach(_, _)
collectionsForEach(container, changes) ==
  IF changes = <<>> THEN container
  ELSE collectionsForEach(collectionsChange(container, Head(changes)), Tail(changes))

\* The snapshot listener of collections: applies the batch to the closure's
\* container, then resolve(container).
collectionsListener(s, b, changes) ==
  [s EXCEPT !.heap[b].items = collectionsForEach(@, changes),
            !.promise[b] = resolve(@, Ref(b))]

\* Vue.set(vm[key], id, val) and Vue.delete(vm[key], id) for a document
\* identity (never an array index): the property is set on, or deleted
\* from, whatever object vm[key] refers to at the time of the call.
VueSet(s, key, id, val) ==
  LET t == s.vm[key] IN
  CASE t.tag = "ref" -> [s EXCEPT !.heap[t.b].props = SetKey(@, id, val)]
    [] t.tag = "obj" -> [s EXCEPT !.vm[key] = Obj(SetKey(t.obj, id, val))]
    [] OTHER -> s
VueDelete(s, key, id) ==
  LET t == s.vm[key] IN
  CASE t.tag = "ref" -> [s EXCEPT !.heap[t.b].props = DeleteKey(@, id)]
    [] t.tag = "obj" -> [s EXCEPT !.vm[key] = Obj(DeleteKey(t.obj, id))]
    [] OTHER -> s

\* Mutant of the callback: `removed` leaves the entry.
MutObjectsKeepsRemoved(s, key, snapshot) ==
  CASE snapshot.type = "added" -> VueSet(s, key, snapshot.doc.id, snapshot.doc.data)
    [] snapshot.type = "modified" -> VueSet(s, key, snapshot.doc.id, snapshot.doc.data)
    [] OTHER -> s

\* The forEach callback of collectionOfObjects.
objectsChange(s, key, snapshot) ==
  CASE snapshot.type = "added" -> VueSet(s, key, snapshot.doc.id, snapshot.doc.data)
    [] snapshot.type = "removed" -> VueDelete(s, key, snapshot.doc.id)
    [] snapshot.type = "modified" -> VueSet(s, key, snapshot.doc.id, snapshot.doc.data)
    [] OTHER -> s

RECURSIVE objectsForEach(_, _, _)
objectsForEach(s, key, changes) ==
  IF changes = <<>> THEN s
  ELSE objectsForEach(objectsChange(s, key, Head(changes)), key, Tail(changes))

\* The snapshot listener of collectionOfObjects: applies the batch through
\* vm[key], then resolve(container) with the closure's own container.
objectsListener(s, b, changes) ==
  [objectsForEach(s, s.subs[b].key, changes) EXCEPT !.promise[b] = resolve(@, Ref(b))]

\* Mutant: the normalized document is merged into the object the property
\* holds.
MutDocumentsMerges(s, b, doc) ==
  LET key == s.subs[b].key
      new == normalize(doc)
      old == IF s.vm[key].tag = "obj" THEN s.vm[key].obj ELSE [p \in {} |-> p]
      container == [f \in (DOMAIN old) \cup (DOMAIN new) |->
                      IF f \in DOMAIN new THEN new[f] ELSE old[f]]
  IN [s EXCEPT !.vm[key] = Obj(container),
               !.promise[b] = resolve(@, Obj(container))]

\* The snapshot listener of documents for a document that exists.
documentsExists(s, b, doc) ==
  LET key == s.subs[b].key
      container == normalize(doc)
  IN [s EXCEPT !.vm[key] = Obj(container),
               !.promise[b] = resolve(@, Obj(container))]

\* The snapshot listener of documents for a document that does not exist:
\* `delete vm.$firestore[key]`, then the argument of reject is evaluated;
\* console has no method `warning`, so that call throws a TypeError and
\* neither reject nor the resolve after it runs.  With $firestore null the
\* delete itself throws.
documentsMissing(s, b) ==
  IF s.firestore.st = "table"
  THEN [s EXCEPT !.firestore.tab = DeleteKey(@, s.subs[b].key)]
  ELSE s

\* The error listener of all three: reject(error).
errorListener(s, b, error) == [s EXCEPT !.promise[b] = reject(@, error)]

\* `binding.then(res => resolve(res)).catch(err => reject(err))` of bind, for
\* a descriptor with callbacks: the calls the chain makes once the promise
\* has settled as p.  A fulfilled promise has the caller's resolve called
\* with its value; when that call throws, the rejection it causes reaches
\* the catch, which calls the caller's reject with what was thrown.  A
\* rejected promise skips the then and has the caller's reject called with
\* its reason.
chainCalls(callbacks, p) ==
  CASE p.state = "fulfilled" ->
         <<[fn |-> "resolve", arg |-> p.value]>>
           \o (IF callbacks = "throws" THEN <<[fn |-> "reject", arg |-> "thrown"]>> ELSE <<>>)
    [] p.state = "rejected" -> <<[fn |-> "reject", arg |-> p.reason]>>
    [] OTHER -> <<>>

\* The reactions of the chain run (as microtasks) when the listener that
\* settled the promise returns: before is the promise as that listener
\* found it.
thenCatch(s, b, before) ==
  IF s.subs[b].callbacks # "none" /\ before.state = "pending"
  THEN [s EXCEPT !.invoked[b] = @ \o chainCalls(s.subs[b].callbacks, s.promise[b])]
  ELSE s

\* ------------------------------------------------------------ notifications
Opened == 1..Len(subs)

\* The client has delivered fewer than n notifications.
Budget(n) == delivered < n

\* A QuerySnapshot delivered to the listener of a sequence binding.
CollectionsSnapshot(b, docs, n, log) ==
  /\ subs[b].mode = "collections"
  /\ subs[b].listening
  /\ delivered' = delivered + 1
  /\ \E changes \in Batches(server[b], n, docs) :
       /\ Install(thenCatch([collectionsListener(State, b, changes)
                               EXCEPT !.server[b] = ServerReplay(@, changes)],
                             b, promise[b]))
       /\ lastCall' = Call("snapshot", subs[b].key, b, IF log THEN changes ELSE "", FALSE)
  /\ UNCHANGED <<phase, unbound>>

\* A QuerySnapshot delivered to the listener of a sequence binding, its
\* docChanges holding events of any kind.
KindsSnapshot(b, docs, n) ==
  /\ subs[b].mode = "collections"
  /\ subs[b].listening
  /\ delivered' = delivered + 1
  /\ \E changes \in AnyBatches(server[b], n, docs) :
       /\ Install(thenCatch([collectionsListener(State, b, changes)
                               EXCEPT !.server[b] = ServerReplay(@, changes)],
                             b, promise[b]))
       /\ lastCall' = Call("snapshot", subs[b].key, b, changes, FALSE)
  /\ UNCHANGED <<phase, unbound>>

\* A snapshot delivered to the listener of a keyed binding: a QuerySnapshot
\* from a query; from a document reference a DocumentSnapshot, which has no
\* docChanges, so the listener throws before it changes anything.
ObjectsSnapshot(b, docs, n, log) ==
  /\ subs[b].mode = "collectionOfObjects"
  /\ subs[b].listening
  /\ delivered' = delivered + 1
  /\ \/ /\ subs[b].source = "query"
        /\ \E changes \in Batches(server[b], n, docs) :
             /\ Install(thenCatch([objectsListener(State, b, changes)
                                     EXCEPT !.server[b] = ServerReplay(@, changes)],
                                   b, promise[b]))
             /\ lastCall' = Call("snapshot", subs[b].key, b, IF log THEN changes ELSE "", FALSE)
     \/ /\ subs[b].source = "document"
        /\ lastCall' = Call("snapshot", subs[b].key, b, "", TRUE)
        /\ UNCHANGED <<firestore, vm, heap, subs, promise, server, invoked>>
  /\ UNCHANGED <<phase, unbound>>

\* A DocumentSnapshot delivered to the listener of a document binding.
DocumentsSnapshot(b) ==
  /\ subs[b].mode = "documents"
  /\ subs[b].listening
  /\ delivered' = delivered + 1
  /\ \/ \E doc \in RefDocs :
          /\ Install(thenCatch([documentsExists(State, b, doc)
                                  EXCEPT !.server[b] = <<doc>>],
                                b, promise[b]))
          /\ lastCall' = Call("snapshot", subs[b].key, b, "exists", FALSE)
     \/ /\ Install([documentsMissing(State, b) EXCEPT !.server[b] = <<>>])
        /\ lastCall' = Call("snapshot", subs[b].key, b, "missing", TRUE)
  /\ UNCHANGED <<phase, unbound>>

\* An error delivered to the error listener.
SnapshotError(b, error) ==
  /\ subs[b].listening
  /\ delivered' = delivered + 1
  /\ Install(thenCatch(errorListener(State, b, error), b, promise[b]))
  /\ lastCall' = Call("error", subs[b].key, b, "", FALSE)
  /\ UNCHANGED <<phase, unbound>>

\* ------------------------------------------------------------ unbind, teardown
\* Vue.prototype.$unbind: `delete this.$firestore[key]`; a TypeError when
\* $firestore is undefined or null.
MutUnbindThrowsIfAbsent(f, key) == f.st # "table" \/ key \notin DOMAIN f.tab
unbindThrows(f, key) == f.st # "table"
unbind(f, key) == IF f.st = "table" THEN [f EXCEPT !.tab = DeleteKey(@, key)] ELSE f

\* The closures whose key $unbind(key) removes from the side-table.
Released(f, key) ==
  IF f.st = "table" /\ key \in DOMAIN f.tab
  THEN {b \in Opened : subs[b].key = key}
  ELSE {}

Unbind(key) ==
  /\ phase # "init"
  /\ firestore' = unbind(firestore, key)
  /\ unbound' = unbound \cup Released(firestore, key)
  /\ lastCall' = Call("$unbind", key, 0,
                      IF Released(firestore, key) = {} THEN "no entry" ELSE "entry",
                      unbindThrows(firestore, key))
  /\ UNCHANGED <<phase, vm, heap, subs, promise, server, invoked, delivered>>

\* The beforeDestroy hook: $unbind of every key of the side-table, then
\* $firestore = null; nothing when there is no side-table.
beforeDestroy(f) ==
  IF f.st # "table" THEN f ELSE [st |-> "null", tab |-> EmptyObject]

BeforeDestroy ==
  /\ phase = "alive"
  /\ phase' = "destroyed"
  /\ firestore' = beforeDestroy(firestore)
  /\ unbound' = unbound \cup UNION {Released(firestore, k) : k \in Keys}
  /\ lastCall' = Call("beforeDestroy", "", 0, "", FALSE)
  /\ UNCHANGED <<vm, heap, subs, promise, server, invoked, delivered>>

Next ==
  \/ Created(MaxBinds)
  \/ \E k \in Keys, src \in Sources : Binding(k, src, MaxBinds)
  \/ \E k \in Keys, src \in Sources : BindCollectionAsObject(k, src, MaxBinds)
  \/ \E b \in Opened : Budget(MaxNotifs) /\ CollectionsSnapshot(b, LifeDocs, LifeBatch, FALSE)
  \/ \E b \in Opened : Budget(MaxNotifs) /\ ObjectsSnapshot(b, LifeDocs, LifeBatch, FALSE)
  \/ \E b \in Opened : Budget(MaxNotifs) /\ DocumentsSnapshot(b)
  \/ \E b \in Opened, e \in Errors : Budget(MaxNotifs) /\ SnapshotError(b, e)
  \/ \E k \in Keys : Unbind(k)
  \/ BeforeDestroy

\* The lifecycle of one owner with at most MaxBinds bind calls.
Spec == Init /\ [][Next]_vars

\* The same, with at most MaxRebinds bind calls: a key may be bound again
\* while the listener of an earlier bind call still delivers.  The history
\* keeps the delivered batch.
NextRebind ==
  \/ Created(MaxRebinds)
  \/ \E k \in Keys, src \in Sources : Binding(k, src, MaxRebinds)
  \/ \E k \in Keys, src \in Sources : BindCollectionAsObject(k, src, MaxRebinds)
  \/ \E b \in Opened : Budget(MaxNotifs) /\ CollectionsSnapshot(b, LifeDocs, LifeBatch, TRUE)
  \/ \E b \in Opened : Budget(MaxNotifs) /\ ObjectsSnapshot(b, LifeDocs, LifeBatch, TRUE)
  \/ \E b \in Opened : Budget(MaxNotifs) /\ DocumentsSnapshot(b)
  \/ \E b \in Opened, e \in Errors : Budget(MaxNotifs) /\ SnapshotError(b, e)
  \/ \E k \in Keys : Unbind(k)
  \/ BeforeDestroy

SpecRebind == Init /\ [][NextRebind]_vars

\* One bind call made with a descriptor that carries the caller's resolve
\* and reject, then notifications.
NextChain ==
  \/ Created(0)
  \/ \E k \in Keys, src \in ChainSources : Binding(k, src, 1)
  \/ \E k \in Keys, src \in ChainSources : BindCollectionAsObject(k, src, 1)
  \/ \E b \in Opened : Budget(MaxNotifs) /\ CollectionsSnapshot(b, LifeDocs, LifeBatch, FALSE)
  \/ \E b \in Opened : Budget(MaxNotifs) /\ ObjectsSnapshot(b, LifeDocs, LifeBatch, FALSE)
  \/ \E b \in Opened : Budget(MaxNotifs) /\ DocumentsSnapshot(b)
  \/ \E b \in Opened, e \in Errors : Budget(MaxNotifs) /\ SnapshotError(b, e)

SpecChain == Init /\ [][NextChain]_vars

\* One declared binding fed batches of up to MaxBatch events over SyncIds;
\* the history keeps the delivered batch.
NextSync ==
  \/ Created(1)
  \/ \E b \in Opened : Budget(SyncNotifs) /\ CollectionsSnapshot(b, SyncDocs, MaxBatch, TRUE)
  \/ \E b \in Opened : Budget(SyncNotifs) /\ ObjectsSnapshot(b, SyncDocs, MaxBatch, TRUE)

SpecSync == Init /\ [][NextSync]_vars

\* One declared binding; a sequence binding is fed batches of up to MaxBatch
\* events of any kind.
NextKinds ==
  \/ Created(1)
  \/ \E b \in Opened : Budget(SyncNotifs) /\ KindsSnapshot(b, SyncDocs, MaxBatch)

SpecKinds == Init /\ [][NextKinds]_vars

\* The query results of at most n documents with identities among ids.
RECURSIVE Results(_, _)
Results(ids, n) ==
  {<<>>} \cup
  (IF n = 0 THEN {}
   ELSE UNION {{<<d>> \o r : r \in Results(ids \ {d.id}, n - 1)} :
                 d \in {x \in Docs : x.id \in ids}})

Normalized(srv) == [j \in 1..Len(srv) |-> normalize(srv[j])]
DataById(srv) ==
  [id \in IdsOf(srv) |-> srv[CHOOSE j \in 1..Len(srv) : srv[j].id = id].data]

\* Single events: the owner after $binding / $bindCollectionAsObject of a
\* query under k1, its container synchronised with any query result of at
\* most MaxLen documents; the client then reports one change per batch.
EventInit ==
  \E srv \in Results(DocIds, MaxLen), mode \in {"collections", "collectionOfObjects"} :
    /\ phase = "alive"
    /\ firestore = [st |-> "table", tab |-> SetKey(EmptyObject, "k1", "query")]
    /\ vm = [k \in Keys |-> IF k = "k1" THEN Ref(1) ELSE Absent]
    /\ heap = << IF mode = "collections"
                 THEN [items |-> Normalized(srv), props |-> EmptyObject]
                 ELSE [items |-> <<>>, props |-> DataById(srv)] >>
    /\ subs = << [key |-> "k1", mode |-> mode, source |-> "query", listening |-> TRUE,
                   callbacks |-> "none"] >>
    /\ promise = << IF srv = <<>> THEN Pending ELSE resolve(Pending, Ref(1)) >>
    /\ server = << srv >>
    /\ invoked = << <<>> >>
    /\ delivered = 0
    /\ unbound = {}
    /\ lastCall = Call("new", "", 0, "", FALSE)

NextEvent ==
  \/ \E b \in Opened : Budget(1) /\ CollectionsSnapshot(b, Docs, 1, TRUE)
  \/ \E b \in Opened : Budget(1) /\ ObjectsSnapshot(b, Docs, 1, TRUE)

SpecEvent == EventInit /\ [][NextEvent]_vars

\* ------------------------------------------------------------ properties
\* A step that delivers a notification to listener b.
Notifies(b) == lastCall'.op \in {"snapshot", "error"} /\ lastCall'.b = b

\* C1: after $unbind(key) removed the entry of a bound key, no notification
\* delivered to the listener of that binding changes a container or a
\* property of the owner.
C1_UnbindReleasesSubscription ==
  [][\A b \in unbound : Notifies(b) => (heap' = heap /\ vm' = vm)]_vars

\* A step of SpecEvent that applies one event of the given type to the
\* sequence container (keyed mapping) of the binding.
SeqStep(type) ==
  /\ lastCall'.op = "snapshot"
  /\ subs[1].mode = "collections"
  /\ Len(lastCall'.arg) = 1
  /\ lastCall'.arg[1].type = type
KeyedStep(type) ==
  /\ lastCall'.op = "snapshot"
  /\ subs[1].mode = "collectionOfObjects"
  /\ Len(lastCall'.arg) = 1
  /\ lastCall'.arg[1].type = type

\* C2: an Added event puts the normalized value at newIndex, keeps the
\* positions below it and shifts those at or above it right by one; a
\* Removed event takes out position oldIndex, keeps the positions below it
\* and shifts those above it left by one.
C2_AddedRemoved ==
  [][LET c == heap[1].items
         d == heap'[1].items
         ev == lastCall'.arg[1]
     IN /\ SeqStep("added") =>
             /\ Len(d) = Len(c) + 1
             /\ d[ev.newIndex + 1] = normalize(ev.doc)
             /\ \A j \in 1..Len(c) : d[IF j <= ev.newIndex THEN j ELSE j + 1] = c[j]
        /\ SeqStep("removed") =>
             /\ Len(d) = Len(c) - 1
             /\ \A j \in 1..Len(c) :
                  j # ev.oldIndex + 1 => d[IF j <= ev.oldIndex THEN j ELSE j - 1] = c[j]
    ]_vars

\* [A,C] -Added D at 1-> [A,D,C]
C2_Witness ==
  /\ lastCall.op = "snapshot"
  /\ subs[1].mode = "collections"
  /\ lastCall.arg = <<[type |-> "added", oldIndex |-> NoIndex, newIndex |-> 1,
                       doc |-> Doc("d", "v1")]>>
  /\ heap[1].items = <<normalize(Doc("a", "v1")), normalize(Doc("d", "v1")),
                       normalize(Doc("c", "v1"))>>

\* C3: a Modified event leaves the length; the new value is at newIndex, and
\* the other elements are those of the old container without position
\* oldIndex, in their order (in place when oldIndex = newIndex: every other
\* position is unchanged).
C3_Modified ==
  [][LET c == heap[1].items
         d == heap'[1].items
         ev == lastCall'.arg[1]
     IN SeqStep("modified") =>
          /\ Len(d) = Len(c)
          /\ d[ev.newIndex + 1] = normalize(ev.doc)
          /\ RemoveAt(d, ev.newIndex) = RemoveAt(c, ev.oldIndex)
          /\ ev.oldIndex = ev.newIndex =>
               \A j \in 1..Len(c) : j # ev.newIndex + 1 => d[j] = c[j]
    ]_vars

\* [A,B,C] -Modified A, oldIndex 0, newIndex 2-> [B,C,A']
C3_Witness ==
  /\ lastCall.op = "snapshot"
  /\ subs[1].mode = "collections"
  /\ lastCall.arg = <<[type |-> "modified", oldIndex |-> 0, newIndex |-> 2,
                       doc |-> Doc("a", "v2")]>>
  /\ heap[1].items = <<normalize(Doc("b", "v1")), normalize(Doc("c", "v1")),
                       normalize(Doc("a", "v2"))>>

\* C4: the container of every collection binding equals the query result
\* of the snapshot its listener processed last: the normalized documents in
\* order (sequence mode), the field data by identity (keyed mode).
C4_ContainerEqualsServer ==
  \A b \in Opened :
    /\ subs[b].mode = "collections" => heap[b].items = Normalized(server[b])
    /\ subs[b].mode = "collectionOfObjects" => heap[b].props = DataById(server[b])

\* The sequence-mode half of C4 on its own.
SequenceEqualsServer ==
  \A b \in Opened :
    subs[b].mode = "collections" => heap[b].items = Normalized(server[b])

\* The events of a batch one at a time, first to last, each on the
\* container the one before it left.
RefChange(c, ev) ==
  CASE ev.type = "added" -> InsertAt(c, ev.newIndex, normalize(ev.doc))
    [] ev.type = "removed" -> RemoveAt(c, ev.oldIndex)
    [] ev.type = "modified" ->
         InsertAt(RemoveAt(c, ev.oldIndex), ev.newIndex, normalize(ev.doc))
RECURSIVE InOrder(_, _)
InOrder(c, batch) ==
  IF batch = <<>> THEN c ELSE InOrder(RefChange(c, Head(batch)), Tail(batch))

\* C5: a delivered batch is applied at its delivery, its events first to
\* last, the indices of each read in the container the event before it left.
C5_AppliedInDeliveryOrder ==
  [][\A b \in Opened :
       (Notifies(b) /\ lastCall'.op = "snapshot" /\ subs[b].mode = "collections")
         => heap'[b].items = InOrder(heap[b].items, lastCall'.arg)]_vars

\* A batch whose second event moves a document to or from a position that
\* exists only once the first event has been applied.
C5_Witness ==
  /\ lastCall.op = "snapshot"
  /\ subs[lastCall.b].mode = "collections"
  /\ Len(lastCall.arg) = 2
  /\ lastCall.arg[1].type = "added"
  /\ lastCall.arg[2].type = "modified"
  /\ lastCall.arg[2].oldIndex # lastCall.arg[2].newIndex
  /\ Len(heap[lastCall.b].items) = 2

\* C6: in keyed mode Added and Modified set the entry at the document's
\* identity to its raw field data, Removed deletes that entry, and every
\* other entry stays as it was.
C6_KeyedEvent ==
  [][LET m == heap[1].props
         n == heap'[1].props
         ev == lastCall'.arg[1]
         others == \A k \in ((DOMAIN m) \cup (DOMAIN n)) \ {ev.doc.id} :
                     k \in DOMAIN m /\ k \in DOMAIN n /\ n[k] = m[k]
     IN /\ (KeyedStep("added") \/ KeyedStep("modified")) =>
             /\ ev.doc.id \in DOMAIN n
             /\ n[ev.doc.id] = ev.doc.data
             /\ others
        /\ KeyedStep("removed") =>
             /\ ev.doc.id \notin DOMAIN n
             /\ others
    ]_vars

\* A Removed event applied to a mapping that keeps another entry.
C6_Witness ==
  /\ lastCall.op = "snapshot"
  /\ subs[1].mode = "collectionOfObjects"
  /\ Len(lastCall.arg) = 1
  /\ lastCall.arg[1].type = "removed"
  /\ lastCall.arg[1].doc.id \notin DOMAIN heap[1].props
  /\ DOMAIN heap[1].props # {}

\* The mode the specification gives: keyed whenever options.objects is set
\* or the descriptor asks for objects, else sequence for a source with
\* `where`, else document.
ClaimedMode(optionsObjects, source) ==
  IF optionsObjects \/ (source.hasRef /\ source.objects) THEN "collectionOfObjects"
  ELSE IF source.where THEN "collections"
  ELSE "documents"

\* C7: every bind call classifies its source as ClaimedMode says.
C7_Classification ==
  /\ lastCall.op = "$binding" =>
       subs[lastCall.b].mode = ClaimedMode(FALSE, lastCall.arg)
  /\ lastCall.op = "$bindCollectionAsObject" =>
       subs[lastCall.b].mode = ClaimedMode(TRUE, lastCall.arg)
  /\ lastCall.op = "created" =>
       \A i \in 1..Len(lastCall.arg) :
         subs[i].mode = ClaimedMode(FALSE, lastCall.arg[i][2])

\* C8: a promise that has settled keeps its state and its value or reason.
C8_SettlesOnce ==
  [][\A b \in Opened : promise[b].state # "pending" => promise'[b] = promise[b]]_vars

\* An error delivered to a binding whose promise was already fulfilled.
C8_Witness ==
  /\ lastCall.op = "error"
  /\ promise[lastCall.b].state = "fulfilled"

\* C9: when the first notification of a document binding reports that the
\* document does not exist, the promise is rejected and the side-table has
\* no entry for the key.
C9_MissingDocumentRejects ==
  (lastCall.op = "snapshot" /\ lastCall.arg = "missing" /\ delivered = 1) =>
    /\ promise[lastCall.b].state = "rejected"
    /\ ~(firestore.st = "table" /\ lastCall.key \in DOMAIN firestore.tab)

\* C10: $unbind(key) on a live owner whose entry for key an earlier $unbind
\* removed throws nothing and changes nothing.
C10_SecondUnbindNoEffect ==
  [][(/\ lastCall'.op = "$unbind"
      /\ phase = "alive"
      /\ firestore.st = "table"
      /\ lastCall'.key \notin DOMAIN firestore.tab
      /\ \E b \in unbound : subs[b].key = lastCall'.key)
       => (/\ ~lastCall'.threw
           /\ UNCHANGED <<phase, firestore, vm, heap, subs, promise, server, unbound>>)]_vars

C10_Witness ==
  /\ lastCall.op = "$unbind"
  /\ lastCall.arg = "no entry"
  /\ ~lastCall.threw
  /\ phase = "alive"
  /\ \E b \in unbound : subs[b].key = lastCall.key

\* C11: $unbind(key) called after the beforeDestroy hook has run (and before
\* any later bind call gives the owner a side-table again) throws nothing
\* and changes nothing, for every key.
C11_UnbindAfterTeardownNoOp ==
  [][(/\ lastCall'.op = "$unbind"
      /\ phase = "destroyed"
      /\ firestore.st # "table")
       => (/\ ~lastCall'.threw
           /\ UNCHANGED <<phase, firestore, vm, heap, subs, promise, server, unbound>>)]_vars

\* C12: the beforeDestroy hook of an owner without a side-table changes
\* nothing; otherwise it leaves the owner no binding entry and no
\* subscription of the owner is still registered with its source.
C12_TeardownReleasesAll ==
  [][lastCall'.op = "beforeDestroy" =>
       IF firestore.st # "table"
       THEN UNCHANGED <<firestore, vm, heap, subs, promise, server>>
       ELSE /\ ~(firestore'.st = "table" /\ DOMAIN firestore'.tab # {})
            /\ \A b \in Opened : ~subs'[b].listening]_vars

\* C13: for a descriptor with the caller's resolve and reject, a settled
\* promise has had exactly one of the two called, exactly once: resolve with
\* the bound container when it is fulfilled, reject with the error when it
\* is rejected; a pending promise has had neither called.
C13_CallbacksChainedOnce ==
  \A b \in Opened :
    subs[b].callbacks # "none" =>
      CASE promise[b].state = "fulfilled" ->
             invoked[b] = <<[fn |-> "resolve", arg |-> promise[b].value]>>
        [] promise[b].state = "rejected" ->
             invoked[b] = <<[fn |-> "reject", arg |-> promise[b].reason]>>
        [] OTHER -> invoked[b] = <<>>

\* C14: a notification delivered to the listener of one bind call changes
\* the container of no other bind call.
C14_OwnContainerOnly ==
  [][\A b \in Opened :
       Notifies(b) => \A c \in Opened \ {b} : heap'[c] = heap[c]]_vars

\* The events of a batch applied first to last to a keyed mapping.
KeyedChange(m, ev) ==
  CASE ev.type \in {"added", "modified"} -> SetKey(m, ev.doc.id, ev.doc.data)
    [] ev.type = "removed" -> DeleteKey(m, ev.doc.id)
RECURSIVE KeyedInOrder(_, _)
KeyedInOrder(m, batch) ==
  IF batch = <<>> THEN m ELSE KeyedInOrder(KeyedChange(m, Head(batch)), Tail(batch))

\* C15: the promise of a collection binding becomes fulfilled only in the
\* step that delivers a batch to it, the first one, empty or not, and its
\* value is the binding's container, which after that step holds the whole
\* batch; every later batch is applied to that same container and leaves
\* the promise as it was.
C15_FulfilledAfterFirstBatch ==
  [][\A b \in Opened :
       /\ (/\ subs[b].mode \in {"collections", "collectionOfObjects"}
           /\ promise[b].state = "pending"
           /\ promise'[b].state = "fulfilled")
            => (Notifies(b) /\ lastCall'.op = "snapshot")
       /\ (/\ Notifies(b)
           /\ lastCall'.op = "snapshot"
           /\ ~lastCall'.threw
           /\ subs[b].mode \in {"collections", "collectionOfObjects"})
            => /\ promise'[b] = IF promise[b].state = "pending"
                                THEN [state |-> "fulfilled", value |-> Ref(b)]
                                ELSE promise[b]
               /\ subs[b].mode = "collections"
                    => heap'[b].items = InOrder(heap[b].items, lastCall'.arg)
               /\ subs[b].mode = "collectionOfObjects"
                    => heap'[b].props = KeyedInOrder(heap[b].props, lastCall'.arg)]_vars

\* C16: a bind call records the source in the side-table at key, opens
\* exactly one subscription, and leaves the key declared on the owner with
\* the empty value of its mode: the empty container it has created in
\* sequence and keyed mode, undefined in document mode.
C16_BindEntry ==
  [][lastCall'.op \in {"$binding", "$bindCollectionAsObject"} =>
       LET b == lastCall'.b
           key == lastCall'.key
       IN /\ Len(subs') = Len(subs) + 1
          /\ b = Len(subs')
          /\ firestore'.st = "table"
          /\ key \in DOMAIN firestore'.tab
          /\ firestore'.tab[key] = subs'[b].source
          /\ IF subs'[b].mode = "documents"
             THEN vm'[key] = Absent
             ELSE vm'[key] = Ref(b) /\ heap'[b] = EmptyContainer]_vars

\* C17: an error delivered to a listener changes no container, no property
\* of the owner and no side-table entry and opens no subscription; when it
\* rejects the promise of a document binding, the bound property is
\* undefined.
C17_RejectionLeavesProperty ==
  [][\A b \in Opened :
       (Notifies(b) /\ lastCall'.op = "error") =>
         /\ UNCHANGED <<firestore, vm, heap, subs, server>>
         /\ (/\ promise[b].state = "pending"
             /\ promise'[b].state = "rejected"
             /\ subs[b].mode = "documents")
              => vm'[subs[b].key] = Absent]_vars

\* C18: in document mode a notification of a document that exists leaves
\* the bound property holding exactly the normalized document, and fulfils
\* the promise with that value when it is the first to settle it; a
\* notification of a document that does not exist leaves every property of
\* the owner and every container as they were.
C18_DocumentReplacedWholesale ==
  [][\A b \in Opened :
       (Notifies(b) /\ lastCall'.op = "snapshot" /\ subs[b].mode = "documents") =>
         IF lastCall'.arg = "exists"
         THEN /\ vm'[subs[b].key] = Obj(normalize(server'[b][1]))
              /\ promise'[b] = IF promise[b].state = "pending"
                               THEN [state |-> "fulfilled",
                                     value |-> Obj(normalize(server'[b][1]))]
                               ELSE promise[b]
         ELSE vm' = vm /\ heap' = heap]_vars

\* A document without fields has replaced the value {id, v} with which the
\* first notification fulfilled the promise.
C18_Witness ==
  /\ lastCall.op = "snapshot"
  /\ subs[lastCall.b].mode = "documents"
  /\ lastCall.arg = "exists"
  /\ vm[lastCall.key] = Obj([id |-> RefDocId])
  /\ promise[lastCall.b].state = "fulfilled"
  /\ promise[lastCall.b].value = Obj([id |-> RefDocId, v |-> "v1"])

IsKnownKind(ev) == ev.type \in {"added", "removed", "modified"}
Count(batch, type) == Cardinality({i \in 1..Len(batch) : batch[i].type = type})

\* C19: a batch delivered to a sequence binding changes the length of the
\* container by the number of its Added events minus the number of its
\* Removed events (its Modified events and its events of any other kind
\* count for nothing), and leaves the container as the batch without the
\* events of other kinds would.
C19_LengthAddedMinusRemoved ==
  [][\A b \in Opened :
       (Notifies(b) /\ lastCall'.op = "snapshot" /\ subs[b].mode = "collections") =>
         /\ Len(heap'[b].items) =
              Len(heap[b].items) + Count(lastCall'.arg, "added")
                - Count(lastCall'.arg, "removed")
         /\ heap'[b].items = InOrder(heap[b].items, SelectSeq(lastCall'.arg, IsKnownKind))]_vars

\* A batch of an Added event and an event of another kind, applied to a
\* container of one element.
C19_Witness ==
  /\ lastCall.op = "snapshot"
  /\ subs[lastCall.b].mode = "collections"
  /\ Len(lastCall.arg) = 2
  /\ lastCall.arg[1].type = "added"
  /\ lastCall.arg[2].type = "other"
  /\ Len(heap[lastCall.b].items) = 2
====
